---- MODULE Spec2Model ----
(***************************************************************************)
(* Model of beginner_source/text_sentiment_ngrams_tutorial.py: the         *)
(* vocabulary and the text/label pipelines, collate_batch, and the         *)
(* train / evaluate / epoch loop of the script.                            *)
(*                                                                         *)
(* Two state machines share the module.  PipeSpec builds the vocabulary    *)
(* from a corpus and collates batches with it.  Spec runs the script's     *)
(* training section; there a batch is known by its number of samples and   *)
(* the number of correct predictions, the numeric kernel being outside     *)
(* the script.                                                             *)
(***************************************************************************)
EXTENDS Integers, Sequences, FiniteSets, TLC

\* ---------------------------------------------------------------- bounds
MaxLen == 2
MaxCorpus == 2
MaxBatch == 2
NumTrain == 3
NumValid == 2
NumTest == 1
BatchBound == 2

\* ------------------------------------------------------ program constants
EPOCHS == 10
LR == 5
log_interval == 500
num_class == 4

VARIABLES
    \* pipeline machine
    ppc,            \* "start" | "ready" | "collating" | "collated"
    train_iter,     \* the corpus iterator: the texts not yet consumed
    corpus_tokens,  \* the tokens yield_tokens has produced
    vocab,          \* [itos, default_index]
    batch,          \* the argument of collate_batch
    label_list, text_list, offsets,   \* locals of collate_batch
    out,            \* the triple collate_batch returned
    \* training machine
    pc, epoch, training, params, grad, lr, total_accu, accu_val, accu_test,
    loader, idx, have, predited_correct, total_acc, total_count,
    seen_accu, passes, ops

pipeVars == <<ppc, train_iter, corpus_tokens, vocab, batch, label_list,
              text_list, offsets, out>>
trainVars == <<pc, epoch, training, params, grad, lr, total_accu, accu_val,
               accu_test, loader, idx, have, predited_correct, total_acc,
               total_count, seen_accu, passes, ops>>
vars == <<pipeVars, trainVars>>

\* ------------------------------------------------------------- sequences
RECURSIVE SumSeq(_)
SumSeq(s) == IF s = <<>> THEN 0 ELSE Head(s) + SumSeq(Tail(s))

RECURSIVE Cat(_)
\* torch.cat over a list of 1-d tensors
Cat(ts) == IF ts = <<>> THEN <<>> ELSE Head(ts) \o Cat(Tail(ts))

\* tensor.cumsum(dim=0)
CumSum(s) == [i \in 1..Len(s) |-> SumSeq(SubSeq(s, 1, i))]

\* the Python slice s[:-1]
ButLast(s) == SubSeq(s, 1, Len(s) - 1)

SeqsUpTo(S, n) == UNION {[1..k -> S] : k \in 0..n}

\* ------------------------------------------------------------- tokenizer
Words == {"A", "b"}

\* basic_english lower-cases each word of the text
Lower(w) == IF w = "A" THEN "a" ELSE w

tokenizer(text) == [i \in 1..Len(text) |-> Lower(text[i])]

Unk == "<unk>"
Tokens == {Lower(w) : w \in Words} \cup {Unk}

\* Python's string order on the tokens
TokenOrd(t) == CASE t = Unk -> 0 [] t = "a" -> 1 [] OTHER -> 2

Texts == SeqsUpTo(Words, MaxLen)
Corpora == SeqsUpTo(Texts, MaxCorpus)

\* ------------------------------------------------------------ vocabulary
RECURSIVE yield_tokens(_)
\* the token lists of a corpus, flattened as Counter.update sees them
yield_tokens(data_iter) ==
    IF data_iter = <<>> THEN <<>>
    ELSE tokenizer(Head(data_iter)) \o yield_tokens(Tail(data_iter))

Freq(toks, t) == Cardinality({i \in 1..Len(toks) : toks[i] = t})

\* t comes before u: higher frequency first, ties in string order
Before(toks, t, u) ==
    \/ Freq(toks, t) > Freq(toks, u)
    \/ Freq(toks, t) = Freq(toks, u) /\ TokenOrd(t) < TokenOrd(u)

RECURSIVE SortTokens(_, _)
SortTokens(S, toks) ==
    IF S = {} THEN <<>>
    ELSE LET first == CHOOSE t \in S : \A u \in S \ {t} : Before(toks, t, u)
         IN  <<first>> \o SortTokens(S \ {first}, toks)

NoDefault == 0 - 1

\* specials first, then the corpus tokens
PlaceSpecials(specials, rest) == specials \o rest

build_vocab_from_iterator(toks, specials) ==
    LET counted == {toks[i] : i \in 1..Len(toks)} \
                   {specials[i] : i \in 1..Len(specials)}
    IN  [itos |-> PlaceSpecials(specials, SortTokens(counted, toks)),
         default_index |-> NoDefault]

Contains(v, t) == \E i \in 1..Len(v.itos) : v.itos[i] = t

\* vocab[token]: the index of the token, the default index when absent
\* (NoDefault stands for the RuntimeError of a vocabulary without default)
VocabLookup(v, t) ==
    IF Contains(v, t)
    THEN (CHOOSE i \in 1..Len(v.itos) : v.itos[i] = t) - 1
    ELSE v.default_index

set_default_index_skipped(v, i) == v

set_default_index(v, i) == [v EXCEPT !.default_index = i]

\* vocab(tokens)
VocabCall(v, toks) == [i \in 1..Len(toks) |-> VocabLookup(v, toks[i])]

text_pipeline(v, x) == VocabCall(v, tokenizer(x))

\* --------------------------------------------------------------- labels
IntLabel(n) == [kind |-> "int", val |-> n]
StrLabel(ds) == [kind |-> "str", digits |-> ds]

RECURSIVE ParseDigits(_, _)
ParseDigits(ds, acc) ==
    IF ds = <<>> THEN acc ELSE ParseDigits(Tail(ds), 10 * acc + Head(ds))

\* int(x): an int is itself, a decimal string is parsed
PyInt(x) == IF x.kind = "int" THEN x.val ELSE ParseDigits(x.digits, 0)

label_pipeline_raw(x) == PyInt(x)

label_pipeline(x) == PyInt(x) - 1

ValidLabels == 1..num_class
RawLabels == {IntLabel(n) : n \in 0..(num_class + 1)} \cup {StrLabel(<<1, 0>>)}

\* samples that vary the label, and samples that vary the text
Samples == {[label |-> l, text |-> <<"A">>] : l \in RawLabels} \cup
           {[label |-> IntLabel(1), text |-> t] : t \in Texts}
Batches == SeqsUpTo(Samples, MaxBatch) \ {<<>>}

\* ------------------------------------------------------ pipeline machine
NoOut == [labels |-> <<>>, text |-> <<>>, offsets |-> <<>>]
NoVocab == [itos |-> <<>>, default_index |-> NoDefault]

PipeIdle ==
    /\ ppc = "start"
    /\ train_iter = <<>>
    /\ corpus_tokens = {}
    /\ vocab = NoVocab
    /\ batch = <<>>
    /\ label_list = <<>>
    /\ text_list = <<>>
    /\ offsets = <<>>
    /\ out = NoOut

PipeInit ==
    /\ ppc = "start"
    /\ train_iter \in Corpora
    /\ corpus_tokens = {}
    /\ vocab = NoVocab
    /\ batch = <<>>
    /\ label_list = <<>>
    /\ text_list = <<>>
    /\ offsets = <<>>
    /\ out = NoOut

\* vocab = build_vocab_from_iterator(...); vocab.set_default_index(vocab["<unk>"])
BuildVocab ==
    /\ ppc = "start"
    /\ LET toks == yield_tokens(train_iter)
           v == build_vocab_from_iterator(toks, <<Unk>>)
       IN  /\ vocab' = set_default_index(v, VocabLookup(v, Unk))
           /\ corpus_tokens' = {toks[i] : i \in 1..Len(toks)}
    /\ train_iter' = <<>>
    /\ ppc' = "ready"
    /\ UNCHANGED <<batch, label_list, text_list, offsets, out>>
    /\ UNCHANGED trainVars

\* label_list, text_list, offsets = [], [], [0]
CollateEnter ==
    /\ ppc = "ready"
    /\ \E b \in Batches : batch' = b
    /\ label_list' = <<>>
    /\ text_list' = <<>>
    /\ offsets' = <<0>>
    /\ out' = NoOut
    /\ ppc' = "collating"
    /\ UNCHANGED <<train_iter, corpus_tokens, vocab>>
    /\ UNCHANGED trainVars

\* one turn of: for (_label, _text) in batch
CollateIter_prepend ==
    /\ ppc = "collating"
    /\ Len(label_list) < Len(batch)
    /\ LET s == batch[Len(label_list) + 1]
           processed_text == text_pipeline(vocab, s.text)
       IN  /\ label_list' = Append(label_list, label_pipeline(s.label))
           /\ text_list' = <<processed_text>> \o text_list
           /\ offsets' = Append(offsets, Len(processed_text))
    /\ UNCHANGED <<ppc, train_iter, corpus_tokens, vocab, batch, out>>
    /\ UNCHANGED trainVars

CollateIter ==
    /\ ppc = "collating"
    /\ Len(label_list) < Len(batch)
    /\ LET s == batch[Len(label_list) + 1]
           processed_text == text_pipeline(vocab, s.text)
       IN  /\ label_list' = Append(label_list, label_pipeline(s.label))
           /\ text_list' = Append(text_list, processed_text)
           /\ offsets' = Append(offsets, Len(processed_text))
    /\ UNCHANGED <<ppc, train_iter, corpus_tokens, vocab, batch, out>>
    /\ UNCHANGED trainVars

\* torch.tensor(offsets[1:]).cumsum(dim=0)
FinalOffsets_tail(offs) == CumSum(Tail(offs))

\* torch.tensor(offsets[:-1]).cumsum(dim=0)
FinalOffsets(offs) == CumSum(ButLast(offs))

\* the three tensors collate_batch returns
CollateReturn ==
    /\ ppc = "collating"
    /\ Len(label_list) = Len(batch)
    /\ out' = [labels |-> label_list,
               text |-> Cat(text_list),
               offsets |-> FinalOffsets(offsets)]
    /\ ppc' = "collated"
    /\ UNCHANGED <<train_iter, corpus_tokens, vocab, batch, label_list,
                   text_list, offsets>>
    /\ UNCHANGED trainVars

PipeNext == BuildVocab \/ CollateEnter \/ CollateIter \/ CollateReturn

\* ------------------------------------------------------ training machine
None == <<>>

\* total_acc/total_count, kept as the pair so that no precision is lost
Accuracy(acc, count) == <<acc, count>>

\* a > b on two accuracies
Gt(a, b) == a[1] * b[2] > b[1] * a[2]

InitialLr == [mant |-> LR, exp10 |-> 0]

\* StepLR(optimizer, 1.0, gamma=0.1).step(): lr times 0.1, as mant * 10^-exp10
scheduler_step(l) == [l EXCEPT !.exp10 = @ + 1]

\* lr a <= lr b (same mantissa)
LrLeq(a, b) == a.exp10 >= b.exp10

Size(ld) == CASE ld = "train" -> NumTrain
              [] ld = "valid" -> NumValid
              [] OTHER -> NumTest

\* len(dataloader): drop_last is False
NumBatches(ld) == (Size(ld) + BatchBound - 1) \div BatchBound

\* label.size(0) of batch i of the loader
BatchSize(ld, i) ==
    IF Size(ld) - i * BatchBound < BatchBound
    THEN Size(ld) - i * BatchBound ELSE BatchBound

TrainInit ==
    /\ pc = "loop"
    /\ epoch = 0
    /\ training = TRUE
    /\ params = 0
    /\ grad = "none"
    /\ lr = InitialLr
    /\ total_accu = None
    /\ accu_val = None
    /\ accu_test = None
    /\ loader = "none"
    /\ idx = 0 - 1
    /\ have = "none"
    /\ predited_correct = 0
    /\ total_acc = 0
    /\ total_count = 0
    /\ seen_accu = {}
    /\ passes = [train |-> 0, valid |-> 0, test |-> 0]
    /\ ops = <<>>

\* for epoch in range(1, EPOCHS + 1), and the fall-through to the test run
LoopHead_early ==
    /\ pc = "loop"
    /\ IF epoch < EPOCHS /\ lr.exp10 = 0
       THEN /\ epoch' = epoch + 1
            /\ pc' = "train_enter"
            /\ loader' = "train"
       ELSE /\ epoch' = epoch
            /\ pc' = "eval_enter"
            /\ loader' = "test"
    /\ UNCHANGED <<training, params, grad, lr, total_accu, accu_val, accu_test,
                   idx, have, predited_correct, total_acc, total_count,
                   seen_accu, passes, ops>>
    /\ UNCHANGED pipeVars

LoopHead ==
    /\ pc = "loop"
    /\ IF epoch < EPOCHS
       THEN /\ epoch' = epoch + 1
            /\ pc' = "train_enter"
            /\ loader' = "train"
       ELSE /\ epoch' = epoch
            /\ pc' = "eval_enter"
            /\ loader' = "test"
    /\ UNCHANGED <<training, params, grad, lr, total_accu, accu_val, accu_test,
                   idx, have, predited_correct, total_acc, total_count,
                   seen_accu, passes, ops>>
    /\ UNCHANGED pipeVars

\* train(): model.train(); total_acc, total_count = 0, 0
TrainEnter ==
    /\ pc = "train_enter"
    /\ training' = TRUE
    /\ total_acc' = 0
    /\ total_count' = 0
    /\ idx' = 0 - 1
    /\ pc' = "train_fetch"
    /\ UNCHANGED <<epoch, params, grad, lr, total_accu, accu_val, accu_test,
                   loader, have, predited_correct, seen_accu, passes, ops>>
    /\ UNCHANGED pipeVars

\* for idx, (label, text, offsets) in enumerate(dataloader); return when done
TrainFetch ==
    /\ pc = "train_fetch"
    /\ IF idx + 1 < NumBatches(loader)
       THEN /\ idx' = idx + 1
            /\ pc' = "zero_grad"
            /\ ops' = <<>>
            /\ have' = "none"
            /\ UNCHANGED <<loader, passes>>
       ELSE /\ pc' = "eval_enter"
            /\ loader' = "valid"
            /\ passes' = [passes EXCEPT !.train = @ + 1]
            /\ UNCHANGED <<idx, ops, have>>
    /\ UNCHANGED <<epoch, training, params, grad, lr, total_accu, accu_val,
                   accu_test, predited_correct, total_acc, total_count,
                   seen_accu>>
    /\ UNCHANGED pipeVars

\* optimizer.zero_grad()
ZeroGrad ==
    /\ pc = "zero_grad"
    /\ grad' = "zero"
    /\ ops' = Append(ops, "zero_grad")
    /\ pc' = "forward"
    /\ UNCHANGED <<epoch, training, params, lr, total_accu, accu_val,
                   accu_test, loader, idx, have, predited_correct, total_acc,
                   total_count, seen_accu, passes>>
    /\ UNCHANGED pipeVars

\* predited_label = model(text, offsets)
Forward ==
    /\ pc = "forward"
    /\ \E c \in 0..BatchSize(loader, idx) : predited_correct' = c
    /\ have' = "logits"
    /\ ops' = Append(ops, "forward")
    /\ pc' = "loss"
    /\ UNCHANGED <<epoch, training, params, grad, lr, total_accu, accu_val,
                   accu_test, loader, idx, total_acc, total_count, seen_accu,
                   passes>>
    /\ UNCHANGED pipeVars

\* loss = criterion(predited_label, label)
Loss ==
    /\ pc = "loss"
    /\ have' = "loss"
    /\ ops' = Append(ops, "loss")
    /\ pc' = "backward"
    /\ UNCHANGED <<epoch, training, params, grad, lr, total_accu, accu_val,
                   accu_test, loader, idx, predited_correct, total_acc,
                   total_count, seen_accu, passes>>
    /\ UNCHANGED pipeVars

\* loss.backward() with the clipping left out
Backward_noclip ==
    /\ pc = "backward"
    /\ grad' = "computed"
    /\ ops' = Append(ops, "backward")
    /\ pc' = "step"
    /\ UNCHANGED <<epoch, training, params, lr, total_accu, accu_val,
                   accu_test, loader, idx, have, predited_correct, total_acc,
                   total_count, seen_accu, passes>>
    /\ UNCHANGED pipeVars

\* loss.backward()
Backward ==
    /\ pc = "backward"
    /\ grad' = "computed"
    /\ ops' = Append(ops, "backward")
    /\ pc' = "clip"
    /\ UNCHANGED <<epoch, training, params, lr, total_accu, accu_val,
                   accu_test, loader, idx, have, predited_correct, total_acc,
                   total_count, seen_accu, passes>>
    /\ UNCHANGED pipeVars

\* torch.nn.utils.clip_grad_norm_(model.parameters(), 0.1)
Clip ==
    /\ pc = "clip"
    /\ grad' = "clipped"
    /\ ops' = Append(ops, "clip")
    /\ pc' = "step"
    /\ UNCHANGED <<epoch, training, params, lr, total_accu, accu_val,
                   accu_test, loader, idx, have, predited_correct, total_acc,
                   total_count, seen_accu, passes>>
    /\ UNCHANGED pipeVars

\* optimizer.step(): the parameters move by -lr * grad
OptStep ==
    /\ pc = "step"
    /\ params' = params + 1
    /\ ops' = Append(ops, "step")
    /\ pc' = "accum"
    /\ UNCHANGED <<epoch, training, grad, lr, total_accu, accu_val, accu_test,
                   loader, idx, have, predited_correct, total_acc, total_count,
                   seen_accu, passes>>
    /\ UNCHANGED pipeVars

\* total_acc += ...; total_count += label.size(0); the periodic report
Accum ==
    /\ pc = "accum"
    /\ IF idx % log_interval = 0 /\ idx > 0
       THEN /\ total_acc' = 0
            /\ total_count' = 0
       ELSE /\ total_acc' = total_acc + predited_correct
            /\ total_count' = total_count + BatchSize(loader, idx)
    /\ predited_correct' = 0
    /\ pc' = "train_fetch"
    /\ UNCHANGED <<epoch, training, params, grad, lr, total_accu, accu_val,
                   accu_test, loader, idx, have, seen_accu, passes, ops>>
    /\ UNCHANGED pipeVars

\* evaluate(): model.eval(); total_acc, total_count = 0, 0
EvalEnter ==
    /\ pc = "eval_enter"
    /\ training' = FALSE
    /\ total_acc' = 0
    /\ total_count' = 0
    /\ idx' = 0 - 1
    /\ pc' = "eval_fetch"
    /\ UNCHANGED <<epoch, params, grad, lr, total_accu, accu_val, accu_test,
                   loader, have, predited_correct, seen_accu, passes, ops>>
    /\ UNCHANGED pipeVars

\* for idx, (label, text, offsets) in enumerate(dataloader), under no_grad
EvalFetch ==
    /\ pc = "eval_fetch"
    /\ IF idx + 1 < NumBatches(loader)
       THEN /\ idx' = idx + 1
            /\ pc' = "eval_forward"
       ELSE /\ idx' = idx
            /\ pc' = "eval_return"
    /\ have' = "none"
    /\ UNCHANGED <<epoch, training, params, grad, lr, total_accu, accu_val,
                   accu_test, loader, predited_correct, total_acc, total_count,
                   seen_accu, passes, ops>>
    /\ UNCHANGED pipeVars

\* predited_label = model(text, offsets)
EvalForward ==
    /\ pc = "eval_forward"
    /\ \E c \in 0..BatchSize(loader, idx) : predited_correct' = c
    /\ have' = "logits"
    /\ pc' = "eval_loss"
    /\ UNCHANGED <<epoch, training, params, grad, lr, total_accu, accu_val,
                   accu_test, loader, idx, total_acc, total_count, seen_accu,
                   passes, ops>>
    /\ UNCHANGED pipeVars

\* an evaluate that also trains on the batch
EvalLoss_steps ==
    /\ pc = "eval_loss"
    /\ have' = "loss"
    /\ params' = params + 1
    /\ pc' = "eval_accum"
    /\ UNCHANGED <<epoch, training, grad, lr, total_accu, accu_val,
                   accu_test, loader, idx, predited_correct, total_acc,
                   total_count, seen_accu, passes, ops>>
    /\ UNCHANGED pipeVars

\* loss = criterion(predited_label, label)
EvalLoss ==
    /\ pc = "eval_loss"
    /\ have' = "loss"
    /\ pc' = "eval_accum"
    /\ UNCHANGED <<epoch, training, params, grad, lr, total_accu, accu_val,
                   accu_test, loader, idx, predited_correct, total_acc,
                   total_count, seen_accu, passes, ops>>
    /\ UNCHANGED pipeVars

\* total_acc += ...; total_count += label.size(0)
EvalAccum ==
    /\ pc = "eval_accum"
    /\ total_acc' = total_acc + predited_correct
    /\ total_count' = total_count + BatchSize(loader, idx)
    /\ predited_correct' = 0
    /\ pc' = "eval_fetch"
    /\ UNCHANGED <<epoch, training, params, grad, lr, total_accu, accu_val,
                   accu_test, loader, idx, have, seen_accu, passes, ops>>
    /\ UNCHANGED pipeVars

\* return total_acc/total_count, to accu_val or to accu_test (an empty
\* dataloader would raise ZeroDivisionError: the splits are not empty)
EvalReturn ==
    /\ pc = "eval_return"
    /\ total_count > 0
    /\ IF loader = "valid"
       THEN /\ accu_val' = Accuracy(total_acc, total_count)
            /\ seen_accu' = seen_accu \cup {Accuracy(total_acc, total_count)}
            /\ passes' = [passes EXCEPT !.valid = @ + 1]
            /\ pc' = "sched"
            /\ UNCHANGED accu_test
       ELSE /\ accu_test' = Accuracy(total_acc, total_count)
            /\ passes' = [passes EXCEPT !.test = @ + 1]
            /\ pc' = "predict"
            /\ UNCHANGED <<accu_val, seen_accu>>
    /\ UNCHANGED <<epoch, training, params, grad, lr, total_accu, loader, idx,
                   have, predited_correct, total_acc, total_count, ops>>
    /\ UNCHANGED pipeVars

ShouldDecay_ge(best, val) == best # None /\ ~Gt(val, best)

\* total_accu is not None and total_accu > accu_val
ShouldDecay(best, val) == best # None /\ Gt(best, val)

NextBest_always(best, val) == val

\* the else branch: total_accu = accu_val
NextBest(best, val) == IF ShouldDecay(best, val) THEN best ELSE val

\* if ...: scheduler.step() else: total_accu = accu_val
Sched ==
    /\ pc = "sched"
    /\ lr' = IF ShouldDecay(total_accu, accu_val) THEN scheduler_step(lr) ELSE lr
    /\ total_accu' = NextBest(total_accu, accu_val)
    /\ pc' = "loop"
    /\ UNCHANGED <<epoch, training, params, grad, accu_val, accu_test, loader,
                   idx, have, predited_correct, total_acc, total_count,
                   seen_accu, passes, ops>>
    /\ UNCHANGED pipeVars

\* model.to("cpu"); predict(ex_text_str, text_pipeline) under no_grad
Predict ==
    /\ pc = "predict"
    /\ have' = "logits"
    /\ pc' = "done"
    /\ UNCHANGED <<epoch, training, params, grad, lr, total_accu, accu_val,
                   accu_test, loader, idx, predited_correct, total_acc,
                   total_count, seen_accu, passes, ops>>
    /\ UNCHANGED pipeVars

Next ==
    \/ LoopHead \/ TrainEnter \/ TrainFetch \/ ZeroGrad \/ Forward \/ Loss
    \/ Backward \/ Clip \/ OptStep \/ Accum
    \/ EvalEnter \/ EvalFetch \/ EvalForward \/ EvalLoss \/ EvalAccum
    \/ EvalReturn \/ Sched \/ Predict

Init == PipeIdle /\ TrainInit
Spec == Init /\ [][Next]_vars
FairSpec == Spec /\ WF_vars(Next)
PipeStart == PipeInit /\ TrainInit
PipeSpec == PipeStart /\ [][PipeNext]_vars

\* ================================================================ claims
TokenCount(s) == Len(tokenizer(s.text))

CountsBefore(i) == SumSeq([k \in 1..(i - 1) |-> TokenCount(batch[k])])

RunEnd(i) == IF i < Len(out.offsets) THEN out.offsets[i + 1] ELSE Len(out.text)

\* C2: collate_batch keeps the order of the samples: labels[i] is the encoded
\* label of sample i, and the tokens from offsets[i] up to the next offset (the
\* end of the tensor for the last sample) are the encoded text of sample i.
C2_Order ==
    ppc = "collated" =>
        \A i \in 1..Len(batch) :
            /\ out.labels[i] = label_pipeline(batch[i].label)
            /\ SubSeq(out.text, out.offsets[i] + 1, RunEnd(i))
                   = text_pipeline(vocab, batch[i].text)

C2_Witness ==
    /\ ppc = "collated"
    /\ Len(batch) = 2
    /\ out.labels = <<2, 0>>
    /\ Len(out.text) = 3
    /\ out.text[2] > 0
    /\ out.text[3] > 0
    /\ out.text[2] # out.text[3]

\* C6: every label of a collated batch is a class in [0, num_class), whatever
\* labels the batch carried.
C6_LabelsInRange ==
    ppc = "collated" =>
        \A i \in 1..Len(out.labels) : out.labels[i] \in 0..(num_class - 1)

\* C7: on the labels 1..4 the label pipeline is l |-> l - 1, one-to-one and
\* onto the classes 0..3.
C7_Bijection ==
    /\ \A c \in 0..(num_class - 1) :
           Cardinality({l \in ValidLabels : label_pipeline(IntLabel(l)) = c}) = 1
    /\ \A i \in 1..Len(label_list) :
           PyInt(batch[i].label) \in ValidLabels =>
               /\ label_list[i] = PyInt(batch[i].label) - 1
               /\ label_list[i] \in 0..(num_class - 1)
    /\ \A i, j \in 1..Len(label_list) :
           /\ PyInt(batch[i].label) \in ValidLabels
           /\ PyInt(batch[j].label) \in ValidLabels
           /\ PyInt(batch[i].label) # PyInt(batch[j].label)
           => label_list[i] # label_list[j]

C7_Witness ==
    /\ ppc = "collated"
    /\ Len(batch) = 2
    /\ batch[1].label = IntLabel(1)
    /\ batch[2].label = IntLabel(4)
    /\ out.labels = <<0, 3>>

\* C8: once the vocabulary is built, a token that is not in the training
\* corpus looks up as 0, the index of <unk>, and the text pipeline encodes
\* every such token of a text as 0.
C8_UnknownToZero ==
    ppc # "start" =>
        /\ \A t \in Tokens \ corpus_tokens : VocabLookup(vocab, t) = 0
        /\ ppc = "collated" =>
               \A i \in 1..Len(batch) :
                   \A k \in 1..Len(batch[i].text) :
                       tokenizer(batch[i].text)[k] \notin corpus_tokens
                           => out.text[out.offsets[i] + k] = 0

C8_Witness ==
    /\ ppc = "collated"
    /\ corpus_tokens = {"a"}
    /\ Len(batch) = 1
    /\ batch[1].text = <<"A", "b">>
    /\ out.text = <<1, 0>>

Lt(a, b) == a[1] * b[2] < b[1] * a[2]

DecayedOnce(l1, l0) == l1.mant = l0.mant /\ l1.exp10 = l0.exp10 + 1

\* C3 (as the code has it): after the validation pass the learning rate is
\* decayed once exactly when a best exists and the accuracy is strictly below
\* it, the best then staying; otherwise (first epoch, equal or better) the
\* accuracy is recorded as the best and the learning rate stays.
C3_DecayOnlyWhenWorse ==
    [][pc = "sched" =>
          IF total_accu # None /\ Lt(accu_val, total_accu)
          THEN DecayedOnce(lr', lr) /\ total_accu' = total_accu
          ELSE total_accu' = accu_val /\ lr' = lr]_vars

\* C3 as claimed: an accuracy equal to the best counts as no improvement and
\* decays the learning rate.
C3_DecayUnlessBetter ==
    [][pc = "sched" =>
          IF total_accu # None /\ ~Gt(accu_val, total_accu)
          THEN DecayedOnce(lr', lr)
          ELSE total_accu' = accu_val /\ lr' = lr]_vars

C3_Witness ==
    /\ pc = "loop"
    /\ epoch = 3
    /\ lr.exp10 = 1
    /\ Cardinality(seen_accu) = 2
    /\ total_accu = accu_val

TrainBatchPcs == {"zero_grad", "forward", "loss", "backward", "clip", "step",
                  "accum"}
TrainPcs == TrainBatchPcs \cup {"train_enter", "train_fetch"}
EvalBodyPcs == {"eval_fetch", "eval_forward", "eval_loss", "eval_accum",
                "eval_return"}
EvalPcs == EvalBodyPcs \cup {"eval_enter"}

\* C4: evaluate leaves the parameters (and the gradients) as they were; the
\* model is in eval mode throughout its body, and the parameters change only
\* while the model is in train mode.
C4_EvalFrozen ==
    /\ [](pc \in EvalBodyPcs => ~training)
    /\ [][/\ pc \in EvalPcs => params' = params /\ grad' = grad
          /\ params' # params => training /\ training']_vars

C4_Witness ==
    /\ pc = "eval_return"
    /\ loader = "valid"
    /\ ~training
    /\ epoch = 2
    /\ params = 2 * NumBatches("train")
    /\ total_count = NumValid

PassCount(t, v, e) == [train |-> t, valid |-> v, test |-> e]

C5_Order ==
    /\ pc \in TrainPcs =>
           /\ epoch \in 1..EPOCHS
           /\ passes = PassCount(epoch - 1, epoch - 1, 0)
    /\ pc \in EvalPcs /\ loader = "valid" =>
           /\ passes = PassCount(epoch, epoch - 1, 0)
           /\ params = epoch * NumBatches("train")
    /\ pc \in EvalPcs /\ loader = "test" =>
           /\ passes = PassCount(EPOCHS, EPOCHS, 0)
           /\ epoch = EPOCHS
    /\ pc \in {"predict", "done"} =>
           /\ passes = PassCount(EPOCHS, EPOCHS, 1)
           /\ params = EPOCHS * NumBatches("train")

\* C5: the run ends, after exactly EPOCHS epochs whatever the accuracies;
\* epoch k is one full train pass then one validation pass, the train pass of
\* epoch k+1 starts after the validation pass of epoch k, and the one test
\* evaluation comes after the last epoch.
C5_Terminates == <>(pc = "done") /\ []C5_Order

C5_Witness ==
    /\ pc = "done"
    /\ epoch = EPOCHS
    /\ passes = PassCount(EPOCHS, EPOCHS, 1)
    /\ lr.exp10 = EPOCHS - 1

BatchOps == <<"zero_grad", "forward", "loss", "backward", "clip", "step">>

StepsBefore == (epoch - 1) * NumBatches("train") + idx

\* C9: a train batch goes zero_grad, forward, loss, backward, clip, step in
\* that order; the step comes after the clip, once per batch, and the learning
\* rate is the same for all batches of an epoch.
C9_TrainOrder ==
    /\ [](pc \in TrainBatchPcs =>
             /\ ops = SubSeq(BatchOps, 1, Len(ops))
             /\ pc = "accum" => ops = BatchOps /\ params = StepsBefore + 1
             /\ pc # "accum" => params = StepsBefore)
    /\ [][/\ params' # params => grad = "clipped" /\ params' = params + 1
          /\ pc \in TrainPcs => lr' = lr]_vars

C9_Witness ==
    /\ pc = "accum"
    /\ epoch = 3
    /\ idx = NumBatches("train") - 1
    /\ lr.exp10 = 1
    /\ ops = BatchOps

\* C10: at the end of every epoch total_accu is the greatest validation
\* accuracy seen so far; it never decreases, and the learning rate never
\* increases.
C10_BestIsMax ==
    /\ [](pc = "loop" /\ epoch >= 1 =>
             /\ total_accu \in seen_accu
             /\ \A a \in seen_accu : ~Gt(a, total_accu))
    /\ [][/\ total_accu # None =>
                 total_accu' # None /\ ~Gt(total_accu, total_accu')
          /\ LrLeq(lr', lr)]_vars

C10_Witness ==
    /\ pc = "loop"
    /\ epoch = 3
    /\ Cardinality(seen_accu) = 3
    /\ total_accu # accu_val
    /\ lr.exp10 = 1

====
